---------------------------- MODULE Spec2Model ----------------------------
(***************************************************************************)
(* Model of cplxmodule/signal.py: CplxMultichannelGainLayer and            *)
(* CplxProjectionGainLayer.                                                *)
(*                                                                         *)
(* A tensor is a record [shape, data]: shape is the sequence of its        *)
(* dimension sizes and data its elements in row-major (C-contiguous)       *)
(* order, so Len(data) is the product of the shape.  The tensor library's  *)
(* operations the layers call (reshape with an inferred -1, unsqueeze,     *)
(* broadcasting multiply, cat) are modelled by what they compute on that   *)
(* representation.  The gain function and the projection are collaborators *)
(* whose behaviour at a call is an input of the call: the gain either      *)
(* raises or returns an arbitrary tensor, whatever modulus it is given.    *)
(***************************************************************************)
EXTENDS Integers, Sequences, FiniteSets

VARIABLES
    pc,         \* "idle", "called" (forward entered) or "done" (forward ended)
    layer,      \* the layer object the caller holds, or NoLayer
    built,      \* the object as its constructor returned it
    scratch,    \* the object the last constructor call worked on
    ctorErr,    \* what the last constructor call raised, or "none"
    ctorArgs,   \* the class and the arguments of the last constructor call
    input,      \* the caller's (re, im) pair, as it is after the last forward
    arg,        \* the (re, im) pair as it was handed to the last forward
    gainOut,    \* what the gain function did in the last forward
    gainCalls,  \* gain invocations during the last forward
    projCalls,  \* projection invocations during the last forward
    projArg,    \* the pair the projection was last invoked on
    projRet,    \* what the projection did in the last forward
    outcome,    \* how the last forward ended: a returned pair or an error
    nReturned,  \* forward calls that returned so far
    nRaised     \* forward calls that raised so far

vars == <<pc, layer, built, scratch, ctorErr, ctorArgs, input, arg, gainOut, gainCalls,
          projCalls, projArg, projRet, outcome, nReturned, nRaised>>

---------------------------------------------------------------------------
(* Bounds of the model *)

MaxDim == 2

MaxCalls == 2

---------------------------------------------------------------------------
(* Tensors *)

RECURSIVE Prod(_)
Prod(shape) ==
    IF shape = <<>> THEN 1 ELSE shape[1] * Prod(Tail(shape))

Numel(t) == Len(t.data)

\* shape[k:] of Python: the dimensions after the first k, empty when k >= rank
DropDims(shape, k) ==
    IF k >= Len(shape) THEN <<>> ELSE SubSeq(shape, k + 1, Len(shape))

\* shape[:-1] and shape[-1] of a shape of rank >= 1
Leading(shape) == SubSeq(shape, 1, Len(shape) - 1)

Last(shape) == shape[Len(shape)]

\* multi-index (0-based) of the 0-based row-major offset `off` in `shape`
RECURSIVE Unravel(_, _)
Unravel(off, shape) ==
    IF shape = <<>> THEN <<>>
    ELSE LET inner == Prod(Tail(shape))
         IN  <<off \div inner>> \o Unravel(off % inner, Tail(shape))

\* 0-based row-major offset of the multi-index `idx` in `shape`
RECURSIVE Ravel(_, _)
Ravel(idx, shape) ==
    IF shape = <<>> THEN 0
    ELSE idx[1] * Prod(Tail(shape)) + Ravel(Tail(idx), Tail(shape))

\* The size inference of reshape: `shape` may hold one -1.  The result is
\* the resolved shape, or a RuntimeError: when the element count does not
\* fit, and also when the other dimensions multiply to 0, where any size of
\* the -1 dimension would fit and the library refuses to pick one.
RECURSIVE KnownSize(_)
KnownSize(shape) ==
    IF shape = <<>> THEN 1
    ELSE (IF shape[1] = -1 THEN 1 ELSE shape[1]) * KnownSize(Tail(shape))

InferSize(shape, numel) ==
    LET newsize == KnownSize(shape)
        infer   == \E i \in DOMAIN shape : shape[i] = -1
        fits    == IF numel = newsize THEN TRUE
                   ELSE IF infer /\ newsize > 0 THEN numel % newsize = 0
                   ELSE FALSE
    IN  IF ~fits THEN [ok |-> FALSE, shape |-> <<>>]
        ELSE IF infer /\ newsize = 0 THEN [ok |-> FALSE, shape |-> <<>>]
        ELSE [ok    |-> TRUE,
              shape |-> [i \in DOMAIN shape |->
                            IF shape[i] = -1 THEN numel \div newsize
                            ELSE shape[i]]]

\* Tensor.reshape(*shape): the same elements in the same order
Reshape(t, shape) ==
    LET r == InferSize(shape, Numel(t))
    IN  [ok |-> r.ok, t |-> [shape |-> r.shape, data |-> IF r.ok THEN t.data ELSE <<>>]]

\* Tensor.unsqueeze(-2) of a tensor of rank >= 1
Unsqueeze(t) ==
    [shape |-> Leading(t.shape) \o <<1, Last(t.shape)>>, data |-> t.data]

\* a * b of two tensors of equal rank, by the broadcasting rule: a dimension
\* of size 1 is stretched to the other operand's size
BroadcastShape(sa, sb) ==
    [i \in DOMAIN sa |-> IF sa[i] = 1 THEN sb[i] ELSE sa[i]]

Clamp(idx, shape) ==
    [i \in DOMAIN idx |-> IF shape[i] = 1 THEN 0 ELSE idx[i]]

Mul(a, b) ==
    LET shape == BroadcastShape(a.shape, b.shape)
    IN  [shape |-> shape,
         data  |-> [k \in 1..Prod(shape) |->
                      LET idx == Unravel(k - 1, shape)
                      IN  a.data[Ravel(Clamp(idx, a.shape), a.shape) + 1]
                          * b.data[Ravel(Clamp(idx, b.shape), b.shape) + 1]]]

\* torch.cat([a, b], dim=-1) of two tensors that agree in the leading dimensions
Cat(a, b) ==
    LET p == Last(a.shape)
        q == Last(b.shape)
        shape == Leading(a.shape) \o <<p + q>>
    IN  [shape |-> shape,
         data  |-> [k \in 1..Prod(shape) |->
                      LET row == (k - 1) \div (p + q)
                          col == (k - 1) % (p + q)
                      IN  IF col < p THEN a.data[row * p + col + 1]
                          ELSE b.data[row * q + (col - p) + 1]]]

Neg(t) == [shape |-> t.shape, data |-> [k \in DOMAIN t.data |-> 0 - t.data[k]]]

---------------------------------------------------------------------------
(* The inputs of the model *)

Dims == 0..MaxDim

\* the leading ("head") dimensions of an input: none, one or two batch axes
Heads == {<<>>} \cup {<<d>> : d \in Dims} \cup {<<d, e>> : d \in Dims, e \in Dims}

InputShapes == {h \o <<n>> : h \in Heads, n \in Dims}

\* what the gain function may return: scalars, and tensors of rank 1 to 3
GainShapes ==
    {<<>>} \cup {<<a>> : a \in Dims} \cup {<<a, b>> : a \in Dims, b \in Dims}
           \cup {<<a, b, c>> : a \in Dims, b \in Dims, c \in Dims}

FillValue(fill, k) ==
    CASE fill = "zeros" -> 0
      [] fill = "ones"  -> 1
      [] fill = "iota"  -> k
      [] fill = "odd"   -> 0 - (2 * k + 1)

Tensor(shape, fill) ==
    [shape |-> shape, data |-> [k \in 1..Prod(shape) |-> FillValue(fill, k)]]

\* complex inputs: real and imaginary parts of one shape, of rank >= 1 (the
\* layer unpacks re.shape into *head and n_features); a dimension may be 0
InputFills == {<<"iota", "zeros">>, <<"odd", "iota">>}

Inputs ==
    {[re |-> Tensor(s, f[1]), im |-> Tensor(s, f[2])] :
        s \in InputShapes, f \in InputFills}

GainErrors == {"RuntimeError", "TypeError"}

GainResults ==
    {[kind |-> "return", t |-> Tensor(s, f), err |-> "none"] :
        s \in GainShapes, f \in {"ones", "iota"}}
    \cup {[kind |-> "raise", t |-> Tensor(<<0>>, "zeros"), err |-> e] : e \in GainErrors}

ProjResults == {"identity", "negate", "RuntimeError"}

GainFns == {"gainA", "gainB"}

\* modules a caller may hand in as the projection; only some are
\* complex-to-complex
Projections == {"cplxLinear", "realLinear"}

CplxToCplxModules == {"cplxLinear"}

---------------------------------------------------------------------------
(* The layers *)

\* no object: what the caller holds before a constructor has returned
NoLayer ==
    [cls |-> "none", gain |-> "unset", flatten |-> FALSE, projection |-> "unset"]

\* the capability check of cplxmodule.utils
is_cplx_to_cplx(module) == module \in CplxToCplxModules

\* CplxMultichannelGainLayer.__init__ acting on the fresh object of class cls
MultichannelInit(cls, gain, flatten) ==
    [cls |-> cls, gain |-> gain, flatten |-> flatten, projection |-> "unset"]

\* a constructor that stores the projection before it checks it
ProjectionInit_StoreFirst(gain, projection) ==
    LET self == [MultichannelInit("CplxProjectionGainLayer", gain, TRUE)
                    EXCEPT !.projection = projection]
    IN  IF ~is_cplx_to_cplx(projection)
        THEN [raised |-> "AssertionError", self |-> self]
        ELSE [raised |-> "none", self |-> self]

\* CplxProjectionGainLayer.__init__: the object as the constructor leaves it,
\* and the error it raised, if any
ProjectionInit(gain, projection) ==
    LET self == MultichannelInit("CplxProjectionGainLayer", gain, TRUE)
    IN  IF ~is_cplx_to_cplx(projection)
        THEN [raised |-> "AssertionError", self |-> self]
        ELSE [raised |-> "none", self |-> [self EXCEPT !.projection = projection]]

NoTensor == [shape |-> <<0>>, data |-> <<>>]

NoPair == [re |-> NoTensor, im |-> NoTensor]

Returned(re, im) ==
    [kind |-> "return", re |-> re, im |-> im, tail |-> <<>>, n |-> 0, cause |-> "none"]

\* an error of class kind; a ValueError carries what its message reports
Raised(kind, tail, n, cause) ==
    [kind |-> kind, re |-> NoTensor, im |-> NoTensor, tail |-> tail, n |-> n,
     cause |-> cause]

\* a forward whose message reports the whole shape of the gain output
ApplyGain_FullShape(self, re, im, gain0) ==
    LET head       == Leading(re.shape)
        n_features == Last(re.shape)
        shaped     == Reshape(gain0, head \o <<-1, n_features>>)
    IN  IF ~shaped.ok
        THEN Raised("ValueError", gain0.shape, n_features, "RuntimeError")
        ELSE LET re1 == Mul(shaped.t, Unsqueeze(re))
                 im1 == Mul(shaped.t, Unsqueeze(im))
             IN  IF ~self.flatten THEN Returned(re1, im1)
                 ELSE Returned(Reshape(re1, head \o <<-1>>).t,
                               Reshape(im1, head \o <<-1>>).t)

\* a forward that, instead of raising, lets a gain with one value per head
\* position broadcast over the features
ApplyGain_Lenient(self, re, im, gain0) ==
    LET head       == Leading(re.shape)
        n_features == Last(re.shape)
        shaped     == Reshape(gain0, head \o <<-1, n_features>>)
    IN  IF ~shaped.ok /\ gain0.shape # head \o <<1>>
        THEN Raised("ValueError", DropDims(gain0.shape, Len(head)), n_features,
                    "RuntimeError")
        ELSE IF ~shaped.ok
        THEN Returned(Mul(Unsqueeze(re), Unsqueeze(gain0)),
                      Mul(Unsqueeze(im), Unsqueeze(gain0)))
        ELSE LET re1 == Mul(shaped.t, Unsqueeze(re))
                 im1 == Mul(shaped.t, Unsqueeze(im))
             IN  IF ~self.flatten THEN Returned(re1, im1)
                 ELSE Returned(Reshape(re1, head \o <<-1>>).t,
                               Reshape(im1, head \o <<-1>>).t)

\* a forward that validates the gain's last dimension against n_features
\* before it reshapes
ApplyGain_LastDimCheck(self, re, im, gain0) ==
    LET head       == Leading(re.shape)
        n_features == Last(re.shape)
        shaped     == Reshape(gain0, head \o <<-1, n_features>>)
        lastOk     == /\ Len(gain0.shape) >= 1
                      /\ n_features > 0
                      /\ Last(gain0.shape) % n_features = 0
    IN  IF ~shaped.ok \/ ~lastOk
        THEN Raised("ValueError", DropDims(gain0.shape, Len(head)), n_features,
                    "RuntimeError")
        ELSE LET re1 == Mul(shaped.t, Unsqueeze(re))
                 im1 == Mul(shaped.t, Unsqueeze(im))
             IN  IF ~self.flatten THEN Returned(re1, im1)
                 ELSE Returned(Reshape(re1, head \o <<-1>>).t,
                               Reshape(im1, head \o <<-1>>).t)

\* the steps of CplxMultichannelGainLayer.forward after the gain function
\* has returned the tensor gain0
ApplyGain(self, re, im, gain0) ==
    LET head       == Leading(re.shape)
        n_features == Last(re.shape)
        shaped     == Reshape(gain0, head \o <<-1, n_features>>)
    IN  IF ~shaped.ok
        THEN Raised("ValueError", DropDims(gain0.shape, Len(head)), n_features,
                    "RuntimeError")
        ELSE LET gain == shaped.t
                 re1  == Mul(gain, Unsqueeze(re))
                 im1  == Mul(gain, Unsqueeze(im))
                 reF  == Reshape(re1, head \o <<-1>>)
                 imF  == Reshape(im1, head \o <<-1>>)
             IN  IF ~self.flatten THEN Returned(re1, im1)
                 ELSE IF reF.ok /\ imF.ok THEN Returned(reF.t, imF.t)
                 ELSE Raised("RuntimeError", <<>>, 0, "none")

\* a forward that unsqueezes the caller's tensors in place
MultichannelForward_InPlace(self, inp, gres) ==
    [self      |-> self,
     input     |-> IF gres.kind = "raise" THEN inp
                   ELSE [re |-> Unsqueeze(inp.re), im |-> Unsqueeze(inp.im)],
     gainCalls |-> 1,
     projCalls |-> 0,
     projArg   |-> NoPair,
     outcome   |-> IF gres.kind = "raise" THEN Raised(gres.err, <<>>, 0, "none")
                   ELSE ApplyGain(self, inp.re, inp.im, gres.t)]

\* a forward that, once a call has failed, fails every later call
MultichannelForward_Latched(self, inp, gres) ==
    [self      |-> self,
     input     |-> inp,
     gainCalls |-> 1,
     projCalls |-> 0,
     projArg   |-> NoPair,
     outcome   |-> IF gres.kind = "raise" THEN Raised(gres.err, <<>>, 0, "none")
                   ELSE IF nRaised > 0
                   THEN Raised("ValueError", DropDims(gres.t.shape, Len(inp.re.shape) - 1),
                               Last(inp.re.shape), "RuntimeError")
                   ELSE ApplyGain(self, inp.re, inp.im, gres.t)]

\* a forward whose try block also encloses the call of the gain function
MultichannelForward_CatchAll(self, inp, gres) ==
    [self      |-> self,
     input     |-> inp,
     gainCalls |-> 1,
     projCalls |-> 0,
     projArg   |-> NoPair,
     outcome   |-> IF gres.kind = "raise"
                   THEN IF gres.err = "RuntimeError"
                        THEN Raised("ValueError", <<>>, Last(inp.re.shape), "RuntimeError")
                        ELSE Raised(gres.err, <<>>, 0, "none")
                   ELSE ApplyGain(self, inp.re, inp.im, gres.t)]

\* CplxMultichannelGainLayer.forward: the object and the caller's pair as
\* the call leaves them, the collaborator calls made, and the outcome
MultichannelForward(self, inp, gres) ==
    [self      |-> self,
     input     |-> inp,
     gainCalls |-> 1,
     projCalls |-> 0,
     projArg   |-> NoPair,
     outcome   |-> IF gres.kind = "raise" THEN Raised(gres.err, <<>>, 0, "none")
                   ELSE ApplyGain(self, inp.re, inp.im, gres.t)]

\* what the projection collaborator does with the pair it is given
Project(pres, pair) ==
    CASE pres = "identity" -> Returned(pair.re, pair.im)
      [] pres = "negate"   -> Returned(Neg(pair.re), Neg(pair.im))
      [] OTHER             -> Raised(pres, <<>>, 0, "none")

\* CplxProjectionGainLayer.forward
ProjectionForward(self, inp, gres, pres) ==
    LET g == MultichannelForward(self, inp, gres)
    IN  IF g.outcome.kind # "return" THEN g
        ELSE LET pair == [re |-> Cat(g.outcome.re, inp.re),
                          im |-> Cat(g.outcome.im, inp.im)]
             IN  [g EXCEPT !.projCalls = 1,
                           !.projArg   = pair,
                           !.outcome   = Project(pres, pair)]

---------------------------------------------------------------------------
(* The state machine: a caller constructs one layer, then again and again  *)
(* makes an input pair, calls forward on it and collects how the call      *)
(* ended.                                                                  *)

NoGain == [kind |-> "none", t |-> NoTensor, err |-> "none"]

NoOutcome == Raised("none", <<>>, 0, "none")

Init ==
    /\ pc = "idle"
    /\ layer = NoLayer
    /\ built = NoLayer
    /\ scratch = NoLayer
    /\ ctorErr = "none"
    /\ ctorArgs = [cls |-> "none", gain |-> "unset", projection |-> "unset"]
    /\ input = NoPair
    /\ arg = NoPair
    /\ gainOut = NoGain
    /\ gainCalls = 0
    /\ projCalls = 0
    /\ projArg = NoPair
    /\ projRet = "none"
    /\ outcome = NoOutcome
    /\ nReturned = 0
    /\ nRaised = 0

ConstructMultichannel ==
    /\ pc = "idle"
    /\ layer = NoLayer
    /\ \E gain \in GainFns, flatten \in BOOLEAN :
          LET self == MultichannelInit("CplxMultichannelGainLayer", gain, flatten)
          IN  /\ layer' = self
              /\ built' = self
              /\ scratch' = self
              /\ ctorArgs' = [cls |-> self.cls, gain |-> gain, projection |-> "unset"]
    /\ ctorErr' = "none"
    /\ UNCHANGED <<pc, input, arg, gainOut, gainCalls, projCalls, projArg,
                   projRet, outcome, nReturned, nRaised>>

ConstructProjection ==
    /\ pc = "idle"
    /\ layer = NoLayer
    /\ \E gain \in GainFns, projection \in Projections :
          LET r == ProjectionInit(gain, projection)
          IN  /\ scratch' = r.self
              /\ ctorArgs' = [cls |-> r.self.cls, gain |-> gain,
                               projection |-> projection]
              /\ ctorErr' = r.raised
              /\ layer' = IF r.raised = "none" THEN r.self ELSE NoLayer
              /\ built' = IF r.raised = "none" THEN r.self ELSE NoLayer
    /\ UNCHANGED <<pc, input, arg, gainOut, gainCalls, projCalls, projArg,
                   projRet, outcome, nReturned, nRaised>>

\* the caller makes an input pair and calls layer(input)
Call ==
    /\ pc = "idle"
    /\ layer # NoLayer
    /\ nReturned + nRaised < MaxCalls
    /\ \E inp \in Inputs :
          /\ input' = inp
          /\ arg' = inp
    /\ pc' = "called"
    /\ UNCHANGED <<layer, built, scratch, ctorErr, ctorArgs, gainOut, gainCalls,
                   projCalls, projArg, projRet, outcome, nReturned, nRaised>>

\* what a finished forward call r, in which the collaborators did gres and
\* pres, leaves behind
Finish(r, gres, pres) ==
    /\ pc' = "done"
    /\ layer' = r.self
    /\ input' = r.input
    /\ gainOut' = gres
    /\ gainCalls' = r.gainCalls
    /\ projCalls' = r.projCalls
    /\ projArg' = r.projArg
    /\ projRet' = IF r.projCalls = 0 THEN "none" ELSE pres
    /\ outcome' = r.outcome
    /\ nReturned' = IF r.outcome.kind = "return" THEN nReturned + 1 ELSE nReturned
    /\ nRaised' = IF r.outcome.kind = "return" THEN nRaised ELSE nRaised + 1
    /\ UNCHANGED <<built, scratch, ctorErr, ctorArgs, arg>>

ForwardMultichannel ==
    /\ pc = "called"
    /\ layer.cls = "CplxMultichannelGainLayer"
    /\ \E gres \in GainResults :
          Finish(MultichannelForward(layer, input, gres), gres, "none")

ForwardProjection ==
    /\ pc = "called"
    /\ layer.cls = "CplxProjectionGainLayer"
    /\ \E gres \in GainResults, pres \in ProjResults :
          Finish(ProjectionForward(layer, input, gres, pres), gres, pres)

\* the caller has seen how the call ended and drops the pair and the result
Collect ==
    /\ pc = "done"
    /\ pc' = "idle"
    /\ input' = NoPair
    /\ arg' = NoPair
    /\ gainOut' = NoGain
    /\ gainCalls' = 0
    /\ projCalls' = 0
    /\ projArg' = NoPair
    /\ projRet' = "none"
    /\ outcome' = NoOutcome
    /\ UNCHANGED <<layer, built, scratch, ctorErr, ctorArgs, nReturned, nRaised>>

Next ==
    \/ ConstructMultichannel
    \/ ConstructProjection
    \/ Call
    \/ ForwardMultichannel
    \/ ForwardProjection
    \/ Collect

Spec == Init /\ [][Next]_vars

---------------------------------------------------------------------------
(* Vocabulary of the properties.  They speak of the call that has just     *)
(* ended (pc = "done"): of the pair it was given (arg), of what the gain   *)
(* function did (gainOut) and of how the call ended (outcome).             *)

IsMultichannel == layer.cls = "CplxMultichannelGainLayer"

IsProjection == layer.cls = "CplxProjectionGainLayer"

GainReturned == pc = "done" /\ gainOut.kind = "return"

ArgHead == Leading(arg.re.shape)

ArgN == Last(arg.re.shape)

HeadCount == Prod(ArgHead)

GainShape == gainOut.t.shape

GainNumel == Numel(gainOut.t)

GainTail == DropDims(GainShape, Len(ArgHead))

PositiveDims(shape) == \A i \in DOMAIN shape : shape[i] > 0

\* a is no integer multiple of b
NotMultiple(a, b) == \A k \in 0..a : k * b # a

\* the channel counts the properties range over
ChannelCounts == 0..(GainNumel + Prod(GainTail))

\* The gain output has exactly C * n elements per head position.  Where the
\* input has no head position at all (an empty batch), the count per
\* position is read off the gain's shape, which must then extend the head.
PerHead(C) ==
    IF HeadCount > 0 THEN GainNumel = HeadCount * C * ArgN
    ELSE /\ Len(GainShape) > Len(ArgHead)
         /\ SubSeq(GainShape, 1, Len(ArgHead)) = ArgHead
         /\ Prod(GainTail) = C * ArgN

\* out[h, c, j] = g[h, c, j] * x[h, j] for every head position h (counted in
\* row-major order), channel c and feature j, where out and g are laid out
\* as (*head, C, n) and x as (*head, n)
ChannelLaw(out, g, x, C) ==
    /\ Len(out.data) = HeadCount * C * ArgN
    /\ \A h \in 0..(HeadCount - 1), c \in 0..(C - 1), j \in 0..(ArgN - 1) :
          out.data[(h * C + c) * ArgN + j + 1]
              = g.data[(h * C + c) * ArgN + j + 1] * x.data[h * ArgN + j + 1]

\* flat[h, k] for k < C * n is the gain-modulated x, and x itself after that,
\* where flat is laid out as (*head, (C + 1) * n)
ConcatLaw(flat, g, x, C) ==
    /\ Len(flat.data) = HeadCount * (C + 1) * ArgN
    /\ \A h \in 0..(HeadCount - 1), k \in 0..((C + 1) * ArgN - 1) :
          flat.data[h * (C + 1) * ArgN + k + 1]
              = IF k < C * ArgN
                THEN g.data[h * C * ArgN + k + 1] * x.data[h * ArgN + (k % ArgN) + 1]
                ELSE x.data[h * ArgN + (k - C * ArgN) + 1]

---------------------------------------------------------------------------
(* C1 *)

\* C1, as claimed: for every input of shape (*head, n) and every gain output
\* with exactly C * n elements per head position, C >= 1, forward of the
\* layer with flatten = False returns parts of shape (*head, C, n) with
\* re_out[h,c,j] = g[h,c,j] * re[h,j] and im_out[h,c,j] = g[h,c,j] * im[h,j].
\* It is stated for inputs with at least one feature (n >= 1), where the
\* gain output determines C.
C1_AsClaimed ==
    (GainReturned /\ IsMultichannel /\ ~layer.flatten /\ ArgN >= 1)
        => \A C \in ChannelCounts \ {0} :
              PerHead(C) =>
                  /\ outcome.kind = "return"
                  /\ outcome.re.shape = ArgHead \o <<C, ArgN>>
                  /\ outcome.im.shape = ArgHead \o <<C, ArgN>>
                  /\ ChannelLaw(outcome.re, gainOut.t, arg.re, C)
                  /\ ChannelLaw(outcome.im, gainOut.t, arg.im, C)

\* C1 on inputs that hold elements (every dimension of the input positive):
\* there the layer returns what C1 says.
C1_NonEmptyInput ==
    (GainReturned /\ IsMultichannel /\ ~layer.flatten /\ PositiveDims(arg.re.shape))
        => \A C \in ChannelCounts \ {0} :
              PerHead(C) =>
                  /\ outcome.kind = "return"
                  /\ outcome.re.shape = ArgHead \o <<C, ArgN>>
                  /\ outcome.im.shape = ArgHead \o <<C, ArgN>>
                  /\ ChannelLaw(outcome.re, gainOut.t, arg.re, C)
                  /\ ChannelLaw(outcome.im, gainOut.t, arg.im, C)

\* a call with two batch rows, two channels and two features has returned
C1_NonEmptyInput_Witness ==
    /\ GainReturned /\ IsMultichannel /\ ~layer.flatten
    /\ arg.re.shape = <<2, 2>>
    /\ GainShape = <<2, 2, 2>>
    /\ outcome.kind = "return"
    /\ outcome.re.data # outcome.im.data

\* the identity-gain law of C1: a gain of ones gives C copies of the input
C1_IdentityGain ==
    (GainReturned /\ IsMultichannel /\ ~layer.flatten /\ outcome.kind = "return"
        /\ \A k \in DOMAIN gainOut.t.data : gainOut.t.data[k] = 1)
        => \A k \in DOMAIN outcome.re.data :
              LET idx == Unravel(k - 1, outcome.re.shape)
                  src == Ravel(Leading(Leading(idx)) \o <<Last(idx)>>, arg.re.shape) + 1
              IN  /\ outcome.re.data[k] = arg.re.data[src]
                  /\ outcome.im.data[k] = arg.im.data[src]

---------------------------------------------------------------------------
(* C2 *)

\* what the layer gives for the same input and gain output with flatten = False
Unflattened ==
    MultichannelForward([layer EXCEPT !.flatten = FALSE], arg, gainOut).outcome

FlattenLaw(C) ==
    /\ outcome.kind = "return"
    /\ outcome.re.shape = ArgHead \o <<C * ArgN>>
    /\ outcome.im.shape = ArgHead \o <<C * ArgN>>
    /\ Unflattened.kind = "return"
    /\ Unflattened.re.shape = ArgHead \o <<C, ArgN>>
    /\ Len(outcome.re.data) = HeadCount * C * ArgN
    /\ Len(outcome.im.data) = HeadCount * C * ArgN
    /\ \A h \in 0..(HeadCount - 1), c \in 0..(C - 1), j \in 0..(ArgN - 1) :
          /\ outcome.re.data[h * (C * ArgN) + (c * ArgN + j) + 1]
                = Unflattened.re.data[Ravel(Unravel(h, ArgHead) \o <<c, j>>,
                                            Unflattened.re.shape) + 1]
          /\ outcome.im.data[h * (C * ArgN) + (c * ArgN + j) + 1]
                = Unflattened.im.data[Ravel(Unravel(h, ArgHead) \o <<c, j>>,
                                            Unflattened.im.shape) + 1]

\* C2, as claimed: for the same inputs with flatten = True, forward returns
\* parts of shape (*head, C * n) whose element c * n + j of head position h
\* is element [h, c, j] of the flatten = False output.  Stated, as C1 is,
\* for inputs with n >= 1.
C2_AsClaimed ==
    (GainReturned /\ IsMultichannel /\ layer.flatten /\ ArgN >= 1)
        => \A C \in ChannelCounts \ {0} : PerHead(C) => FlattenLaw(C)

\* C2 on inputs that hold elements
C2_NonEmptyInput ==
    (GainReturned /\ IsMultichannel /\ layer.flatten /\ PositiveDims(arg.re.shape))
        => \A C \in ChannelCounts \ {0} : PerHead(C) => FlattenLaw(C)

C2_NonEmptyInput_Witness ==
    /\ GainReturned /\ IsMultichannel /\ layer.flatten
    /\ arg.re.shape = <<2, 2>>
    /\ GainShape = <<2, 2, 2>>
    /\ outcome.kind = "return"
    /\ outcome.re.shape = <<2, 4>>

---------------------------------------------------------------------------
(* C3 *)

ProjectionLaw(C) ==
    /\ projCalls = 1
    /\ projArg.re.shape = ArgHead \o <<(C + 1) * ArgN>>
    /\ projArg.im.shape = ArgHead \o <<(C + 1) * ArgN>>
    /\ ConcatLaw(projArg.re, gainOut.t, arg.re, C)
    /\ ConcatLaw(projArg.im, gainOut.t, arg.im, C)
    /\ outcome = Project(projRet, projArg)
    /\ projRet = "identity" => (outcome.kind = "return" /\ outcome.re = projArg.re
                                /\ outcome.im = projArg.im)

\* C3, as claimed: forward of the projection layer, for an input of shape
\* (*head, n) and a gain output of C channels, invokes the projection exactly
\* once, on the pair of shape (*head, (C + 1) * n) that holds the flattened
\* gain-modulated parts first and the input last, and returns the
\* projection's result unmodified.  Stated, as C1 is, for inputs with n >= 1.
C3_AsClaimed ==
    (GainReturned /\ IsProjection /\ ArgN >= 1)
        => \A C \in ChannelCounts \ {0} : PerHead(C) => ProjectionLaw(C)

\* C3 on inputs that hold elements
C3_NonEmptyInput ==
    (GainReturned /\ IsProjection /\ PositiveDims(arg.re.shape))
        => \A C \in ChannelCounts \ {0} : PerHead(C) => ProjectionLaw(C)

C3_NonEmptyInput_Witness ==
    /\ GainReturned /\ IsProjection
    /\ arg.re.shape = <<2, 2>>
    /\ GainShape = <<2, 2, 2>>
    /\ projCalls = 1
    /\ projRet = "negate"
    /\ projArg.re.shape = <<2, 6>>
    /\ outcome.kind = "return"

---------------------------------------------------------------------------
(* C4 *)

\* what a shape-mismatch failure of the call looks like: a ValueError, raised
\* from the reshape's RuntimeError, that reports the gain's shape without its
\* first len(head) dimensions and the input's feature count, and no output
ShapeMismatchRaised ==
    /\ outcome.kind = "ValueError"
    /\ outcome.cause = "RuntimeError"
    /\ outcome.tail = GainTail
    /\ outcome.n = ArgN
    /\ outcome.re = NoTensor
    /\ outcome.im = NoTensor
    /\ projCalls = 0

\* C4: when the element count of the gain output is no integer multiple of
\* prod(head) * n_in, forward returns no output and raises a ValueError that
\* reports gain.shape[len(head):] and n_in.
C4_ShapeMismatch ==
    (GainReturned /\ NotMultiple(GainNumel, HeadCount * ArgN))
        => ShapeMismatchRaised

\* a gain of shape (2, 1, 1) met an input of shape (2, 2, 2): the message
\* reports the tail (1,) and n_in = 2
C4_Witness ==
    /\ GainReturned /\ IsMultichannel
    /\ arg.re.shape = <<2, 2, 2>>
    /\ GainShape = <<2, 1, 1>>
    /\ outcome.kind = "ValueError"
    /\ outcome.tail = <<1>>
    /\ outcome.n = 2

---------------------------------------------------------------------------
(* C5 *)

\* C5, as claimed: for every input of shape (*head, n), a gain output whose
\* last dimension is not divisible by n makes forward raise the
\* shape-mismatch error, whose message holds the trailing shape and n.
\* Stated for inputs and gain outputs that hold elements.
C5_AsClaimed ==
    (GainReturned /\ Len(GainShape) >= 1 /\ NotMultiple(Last(GainShape), ArgN)
        /\ PositiveDims(arg.re.shape) /\ PositiveDims(GainShape))
        => ShapeMismatchRaised

\* C5, amended: the same for a gain output of shape (*head, m), whose leading
\* dimensions are the input's: when m is no multiple of n, forward raises
\* the ValueError, whose message holds the trailing shape (m,) and n.
C5_SameHead ==
    (GainReturned /\ Len(GainShape) = Len(ArgHead) + 1
        /\ Leading(GainShape) = ArgHead
        /\ NotMultiple(Last(GainShape), ArgN))
        => (ShapeMismatchRaised /\ outcome.tail = <<Last(GainShape)>>)

\* an input of shape (2, 2) with a gain output of shape (2, 1)
C5_Witness ==
    /\ GainReturned
    /\ arg.re.shape = <<2, 2>>
    /\ GainShape = <<2, 1>>
    /\ outcome.kind = "ValueError"
    /\ outcome.tail = <<1>>
    /\ outcome.n = 2

---------------------------------------------------------------------------
(* C6 *)

\* C6: constructing the projection layer with a projection that fails the
\* complex-to-complex check raises an AssertionError in the constructor: the
\* caller gets no layer, the projection was not stored on the object and no
\* collaborator has been invoked.  When the check passes, the layer has
\* flatten = True, the supplied gain and the supplied projection.
C6_Constructor ==
    /\ (ctorArgs.cls = "CplxProjectionGainLayer"
            /\ ~is_cplx_to_cplx(ctorArgs.projection))
        => /\ ctorErr = "AssertionError"
           /\ layer = NoLayer
           /\ scratch.projection = "unset"
           /\ pc = "idle"
           /\ gainCalls = 0 /\ projCalls = 0
           /\ nReturned = 0 /\ nRaised = 0
    /\ (ctorArgs.cls = "CplxProjectionGainLayer"
            /\ is_cplx_to_cplx(ctorArgs.projection))
        => /\ ctorErr = "none"
           /\ built = [cls |-> "CplxProjectionGainLayer", gain |-> ctorArgs.gain,
                       flatten |-> TRUE, projection |-> ctorArgs.projection]

\* the constructor has been called with a module that is not complex-to-complex
C6_Witness ==
    /\ ctorArgs.cls = "CplxProjectionGainLayer"
    /\ ctorArgs.projection = "realLinear"
    /\ ctorErr = "AssertionError"

---------------------------------------------------------------------------
(* C7 *)

\* the outcome the layer as constructed gives for the pair and the
\* collaborator behaviour of the call that has ended
AsConstructed ==
    IF built.cls = "CplxProjectionGainLayer"
    THEN ProjectionForward(built, arg, gainOut,
                           IF projRet = "none" THEN "identity" ELSE projRet).outcome
    ELSE MultichannelForward(built, arg, gainOut).outcome

\* C7: after any sequence of forward calls, returned or raised, the layer's
\* flatten flag, gain and projection are those of its construction and the
\* caller's pair is as it was handed in; so a call's outcome is the one the
\* layer as constructed gives for that input and collaborator behaviour.
C7_Frame ==
    /\ layer # NoLayer => layer = built
    /\ pc = "done" => (input = arg /\ outcome = AsConstructed)

\* a call has ended after an earlier call returned and another raised
C7_Witness ==
    /\ pc = "done"
    /\ nReturned >= 1
    /\ nRaised >= 1
    /\ PositiveDims(arg.re.shape)

---------------------------------------------------------------------------
(* C8 *)

\* The pair (input shape, gain output) is incompatible when no channel
\* count C lets (*head, C, n) hold the gain's elements, or when every count
\* does because the input holds no element; otherwise it is compatible.
Incompatible ==
    \/ HeadCount * ArgN = 0
    \/ NotMultiple(GainNumel, HeadCount * ArgN)

---------------------------------------------------------------------------
(* C9 *)

\* C9: an error raised by the gain function or by the projection reaches
\* the caller as the same error, never as the layer's ValueError; and when
\* the gain stage of the projection layer fails, the projection is not
\* invoked and nothing is returned.
C9_Propagation ==
    /\ (pc = "done" /\ gainOut.kind = "raise")
        => /\ outcome.kind = gainOut.err
           /\ outcome.cause = "none"
           /\ outcome.re = NoTensor /\ outcome.im = NoTensor
           /\ projCalls = 0
    /\ (pc = "done" /\ projCalls = 1 /\ projRet \notin {"identity", "negate"})
        => /\ outcome.kind = projRet
           /\ outcome.re = NoTensor /\ outcome.im = NoTensor
    /\ (pc = "done" /\ IsProjection /\ outcome.kind = "ValueError")
        => /\ projCalls = 0
           /\ outcome.re = NoTensor /\ outcome.im = NoTensor

\* the gain function raised a RuntimeError inside the projection layer
C9_Witness ==
    /\ pc = "done"
    /\ IsProjection
    /\ gainOut.kind = "raise"
    /\ gainOut.err = "RuntimeError"
    /\ outcome.kind = "RuntimeError"

---------------------------------------------------------------------------
(* C10 *)

\* C10: the compatibility check looks only at the element count of the gain
\* output.  For an input whose dimensions are all positive, forward raises
\* no ValueError whenever the gain output has K * prod(head) * n elements,
\* whatever its shape, and the result then has exactly K channels (none,
\* and an empty output, for a gain output without elements).
C10_CountOnly ==
    (GainReturned /\ PositiveDims(arg.re.shape))
        => \A K \in ChannelCounts :
              GainNumel = K * HeadCount * ArgN =>
                  /\ outcome.kind # "ValueError"
                  /\ (IsMultichannel /\ ~layer.flatten) =>
                        /\ outcome.kind = "return"
                        /\ outcome.re.shape = ArgHead \o <<K, ArgN>>
                        /\ outcome.im.shape = ArgHead \o <<K, ArgN>>
                  /\ (IsMultichannel /\ layer.flatten) =>
                        /\ outcome.kind = "return"
                        /\ outcome.re.shape = ArgHead \o <<K * ArgN>>
                        /\ outcome.im.shape = ArgHead \o <<K * ArgN>>
                  /\ IsProjection =>
                        /\ projCalls = 1
                        /\ projArg.re.shape = ArgHead \o <<(K + 1) * ArgN>>
                        /\ projArg.im.shape = ArgHead \o <<(K + 1) * ArgN>>

\* an input of shape (1, 2) and a gain output of shape (2, 2, 1): its
\* leading dimension differs from the head, its last is no multiple of n
C10_Witness ==
    /\ GainReturned /\ IsMultichannel /\ ~layer.flatten
    /\ arg.re.shape = <<1, 2>>
    /\ GainShape = <<2, 2, 1>>
    /\ outcome.kind = "return"
    /\ outcome.re.shape = <<1, 2, 2>>

\* a gain output without elements gives an output without channels
C10_NoChannels ==
    /\ GainReturned /\ IsMultichannel /\ layer.flatten
    /\ arg.re.shape = <<2, 2>>
    /\ GainNumel = 0
    /\ outcome.kind = "return"
    /\ outcome.re.shape = <<2, 0>>

===========================================================================
